---- MODULE Spec2Model ----
(***************************************************************************)
(* Chrome Deprecation Watcher: the catalog acquisition pipeline            *)
(* (getOrCreateReleaseNotes, parseReleaseNotesWithCopilot), the catalog    *)
(* file it reads and writes, and the activation sequence of the extension. *)
(*                                                                         *)
(* It also holds the Match Engine (checkForDeprecations), as operators on   *)
(* sequences of characters, and the document events of the editor.         *)
(*                                                                         *)
(* Text (the catalog file, the fenced block of a model response) is a      *)
(* sequence of lexical tokens; JSON.parse and JSON.stringify convert       *)
(* between token sequences and JSON values.                                *)
(***************************************************************************)
EXTENDS Integers, Sequences, FiniteSets, TLC

(***************************************************************************)
(* Bounds                                                                  *)
(***************************************************************************)
\* number of activations (process lifetimes) followed
MaxRuns == 2
\* length, in tokens, of the text between the fences of a model response
MaxBlockLen == 3

(***************************************************************************)
(* JSON values.  Every value is a record of the same shape so that any two *)
(* values can be compared: kind is the JavaScript type, items the elements *)
(* of an array, and the three fields are those of an object (Undefined     *)
(* when the property is missing or the value is not an object).  apiName   *)
(* is a sequence of characters, NoName when it is undefined; changeType    *)
(* and description are opaque strings.                                     *)
(***************************************************************************)
Undefined == "#undefined"
NoName == <<"#undefined">>

JVal(kind, items, a, c, d) ==
  [kind |-> kind, items |-> items, apiName |-> a, changeType |-> c, description |-> d]

JNull == JVal("null", <<>>, NoName, Undefined, Undefined)
JNum == JVal("number", <<>>, NoName, Undefined, Undefined)
JStr == JVal("string", <<>>, NoName, Undefined, Undefined)
JObj(a, c, d) == JVal("object", <<>>, a, c, d)
JArr(items) == JVal("array", items, NoName, Undefined, Undefined)

EmptyCatalog == JArr(<<>>)

\* interface DeprecatedAPI: three string fields
IsDeprecatedAPI(v) ==
  /\ v.kind = "object"
  /\ v.apiName # NoName
  /\ v.changeType # Undefined
  /\ v.description # Undefined

\* DeprecatedAPI[]
IsDeprecatedAPIArray(v) ==
  /\ v.kind = "array"
  /\ \A i \in 1..Len(v.items) : IsDeprecatedAPI(v.items[i])

(***************************************************************************)
(* Tokens of JSON text.  An object literal is one token.                   *)
(***************************************************************************)
ObjToks == {"{Foo}", "{Bar}", "{Bad}", "{Empty}"}
ScalarToks == {"null", "5", "str"}

ObjOfTok(t) ==
  CASE t = "{Foo}" -> JObj(<<"F", "o", "o">>, "Deprecated", "d1")
    [] t = "{Bar}" -> JObj(<<"B", "a", "r">>, "Removed", "d2")
    [] t = "{Bad}" -> JObj(NoName, "Changed", Undefined)
    [] t = "{Empty}" -> JObj(<<>>, "Changed", "d3")

ScalarOfTok(t) ==
  CASE t = "null" -> JNull
    [] t = "5" -> JNum
    [] t = "str" -> JStr

TokOfValue(v) ==
  CASE v.kind = "null" -> "null"
    [] v.kind = "number" -> "5"
    [] v.kind = "string" -> "str"
    [] v.kind = "object" -> CHOOSE t \in ObjToks : ObjOfTok(t) = v

\* white space between tokens is skipped by the JSON grammar
StripWs(toks) == SelectSeq(toks, LAMBDA t : t # "ws")

ParseFail == [ok |-> FALSE, val |-> JNull, items |-> <<>>, next |-> 0]

RECURSIVE ParseValue(_, _)
RECURSIVE ParseElements(_, _)

\* value ::= scalar | object | "[" "]" | "[" elements "]"
ParseValue(t, i) ==
  IF i > Len(t) THEN ParseFail
  ELSE IF t[i] \in ScalarToks
    THEN [ok |-> TRUE, val |-> ScalarOfTok(t[i]), items |-> <<>>, next |-> i + 1]
  ELSE IF t[i] \in ObjToks
    THEN [ok |-> TRUE, val |-> ObjOfTok(t[i]), items |-> <<>>, next |-> i + 1]
  ELSE IF t[i] = "["
    THEN IF i + 1 <= Len(t) /\ t[i + 1] = "]"
           THEN [ok |-> TRUE, val |-> JArr(<<>>), items |-> <<>>, next |-> i + 2]
           ELSE LET r == ParseElements(t, i + 1)
                IN  IF r.ok
                      THEN [ok |-> TRUE, val |-> JArr(r.items), items |-> <<>>, next |-> r.next]
                      ELSE ParseFail
  ELSE ParseFail

\* elements ::= value "]" | value "," elements
ParseElements(t, i) ==
  LET v == ParseValue(t, i)
  IN  IF ~v.ok \/ v.next > Len(t) THEN ParseFail
      ELSE IF t[v.next] = "]"
        THEN [ok |-> TRUE, val |-> JNull, items |-> <<v.val>>, next |-> v.next + 1]
      ELSE IF t[v.next] = ","
        THEN LET r == ParseElements(t, v.next + 1)
             IN  IF r.ok
                   THEN [ok |-> TRUE, val |-> JNull, items |-> <<v.val>> \o r.items, next |-> r.next]
                   ELSE ParseFail
      ELSE ParseFail

\* JSON.parse(text): ok = FALSE is a SyntaxError
JSONParse(text) ==
  LET t == StripWs(text)
      r == ParseValue(t, 1)
  IN  IF r.ok /\ r.next = Len(t) + 1
        THEN [ok |-> TRUE, val |-> r.val]
        ELSE [ok |-> FALSE, val |-> JNull]

RECURSIVE JSONStringify(_)
RECURSIVE StringifyItems(_, _)

StringifyItems(items, i) ==
  IF i > Len(items) THEN <<>>
  ELSE <<"ws">> \o JSONStringify(items[i])
         \o (IF i < Len(items) THEN <<",">> ELSE <<>>)
         \o StringifyItems(items, i + 1)

\* a serialiser that leaves an array unterminated
JSONStringify_Unterminated(v) ==
  IF v.kind = "array"
    THEN <<"[">> \o StringifyItems(v.items, 1)
    ELSE <<TokOfValue(v)>>

\* JSON.stringify(value, null, 2): pretty-printed, one element per line
JSONStringify(v) ==
  IF v.kind = "array"
    THEN IF v.items = <<>>
           THEN <<"[", "]">>
           ELSE <<"[">> \o StringifyItems(v.items, 1) \o <<"ws", "]">>
    ELSE <<TokOfValue(v)>>

(***************************************************************************)
(* parseHTMLwithCheerio.  The markup is the sequence of its top-level      *)
(* nodes, "h3" headings and "p" anything else.                             *)
(***************************************************************************)
RECURSIVE NextUntilH3(_, _)
\* $(element).nextUntil('h3'): the siblings after position i up to the next h3
NextUntilH3(html, i) ==
  IF i + 1 > Len(html) \/ html[i + 1] = "h3" THEN <<>>
  ELSE <<html[i + 1]>> \o NextUntilH3(html, i + 1)

RECURSIVE SectionsFrom(_, _)
SectionsFrom(html, i) ==
  IF i > Len(html) THEN <<>>
  ELSE IF html[i] = "h3"
    THEN <<[heading |-> i, content |-> NextUntilH3(html, i)]>> \o SectionsFrom(html, i + 1)
    ELSE SectionsFrom(html, i + 1)

\* one "HEADING: ... CONTENT: ..." string per h3, in document order
ParseHTMLwithCheerio(html) == SectionsFrom(html, 1)

(***************************************************************************)
(* parseReleaseNotesWithCopilot, step 6: the fenced block of the response. *)
(* A response is a sequence of tokens: the JSON tokens, "txt" for prose,   *)
(* Open for the opening fence (three backquotes and the word json) and     *)
(* Fence for three backquotes alone.                                       *)
(***************************************************************************)
Open == "<fence>json"
Fence == "<fence>"

\* the three backquotes that close a block may be those of a later opening fence
ClosesBlock(t) == t = Fence \/ t = Open

\* a scan that settles on the last opening fence instead of the first
JsonRegexExec_LastBlock(resp) ==
  LET starts == {i \in 1..Len(resp) :
                   resp[i] = Open /\ \E j \in (i + 1)..Len(resp) : ClosesBlock(resp[j])}
  IN  IF starts = {} THEN [matched |-> FALSE, group |-> <<>>]
      ELSE LET i == CHOOSE a \in starts : \A b \in starts : a >= b
               ends == {j \in (i + 1)..Len(resp) : ClosesBlock(resp[j])}
               j == CHOOSE a \in ends : \A b \in ends : a <= b
           IN  [matched |-> TRUE, group |-> SubSeq(resp, i + 1, j - 1)]

\* jsonRegex.exec(responseText), jsonRegex = / Open ([\s\S]*?) Fence / :
\* the leftmost opening fence that a fence follows, and the shortest text up to one
JsonRegexExec(resp) ==
  LET starts == {i \in 1..Len(resp) :
                   resp[i] = Open /\ \E j \in (i + 1)..Len(resp) : ClosesBlock(resp[j])}
  IN  IF starts = {} THEN [matched |-> FALSE, group |-> <<>>]
      ELSE LET i == CHOOSE a \in starts : \A b \in starts : a <= b
               ends == {j \in (i + 1)..Len(resp) : ClosesBlock(resp[j])}
               j == CHOOSE a \in ends : \A b \in ends : a <= b
           IN  [matched |-> TRUE, group |-> SubSeq(resp, i + 1, j - 1)]

\* try { parsed = JSON.parse(text); parsed.length; return parsed } catch {}
\* parsed.length raises a TypeError on null, which the catch swallows as well
TryParse(text) ==
  LET p == JSONParse(text)
  IN  IF p.ok /\ p.val.kind # "null"
        THEN [returned |-> TRUE, val |-> p.val]
        ELSE [returned |-> FALSE, val |-> JNull]

\* the value parseReleaseNotesWithCopilot returns for a complete response
ParseCopilotResponse(resp) ==
  LET m == JsonRegexExec(resp)
  IN  IF m.matched /\ m.group # <<>>
        THEN LET r == TryParse(m.group)
             IN  IF r.returned THEN r.val ELSE EmptyCatalog
        ELSE EmptyCatalog

(***************************************************************************)
(* checkForDeprecations: the Match Engine.  A text is a sequence of        *)
(* characters; offsets count from 0, so the character at offset k is       *)
(* text[k + 1].                                                            *)
(***************************************************************************)
\* \w : letters, digits and the underscore
WordChars ==
  { "a", "b", "c", "d", "e", "f", "g", "h", "i", "j", "k", "l", "m",
    "n", "o", "p", "q", "r", "s", "t", "u", "v", "w", "x", "y", "z",
    "A", "B", "C", "D", "E", "F", "G", "H", "I", "J", "K", "L", "M",
    "N", "O", "P", "Q", "R", "S", "T", "U", "V", "W", "X", "Y", "Z",
    "0", "1", "2", "3", "4", "5", "6", "7", "8", "9", "_" }

\* the class [.*+?^${}()|[\]\\] of the escaping replace
MetaChars == {".", "*", "+", "?", "^", "$", "{", "}", "(", ")", "|", "[", "]", "\\"}

RECURSIVE EscapeFrom(_, _, _)
\* a backslash before every character of the class, from position i on
EscapeFrom(class, name, i) ==
  IF i > Len(name) THEN <<>>
  ELSE (IF name[i] \in class THEN <<"\\", name[i]>> ELSE <<name[i]>>)
         \o EscapeFrom(class, name, i + 1)

\* an escaping whose class lacks the dot
EscapeRegExp_ForgetsDot(name) == EscapeFrom(MetaChars \ {"."}, name, 1)

\* dep.apiName.replace(/[.*+?^${}()|[\]\\]/g, '\\$&')
EscapeRegExp(name) == EscapeFrom(MetaChars, name, 1)

\* the source given to new RegExp: \b, the escaped name, \b
PatternSource(name) == <<"\\", "b">> \o EscapeRegExp(name) \o <<"\\", "b">>

RECURSIVE CompileFrom(_, _)
\* the atoms of a pattern source: \b is the word-boundary assertion, a
\* backslash before any other character makes it a literal, a bare dot is any
\* character but a line break, and every other character stands for itself
\* (no other metacharacter reaches the compiler unescaped)
CompileFrom(src, i) ==
  IF i > Len(src) THEN <<>>
  ELSE IF src[i] = "\\" /\ i < Len(src)
    THEN <<(IF src[i + 1] = "b"
              THEN [t |-> "wb", c |-> "b"]
              ELSE [t |-> "lit", c |-> src[i + 1]])>> \o CompileFrom(src, i + 2)
  ELSE IF src[i] = "."
    THEN <<[t |-> "any", c |-> "."]>> \o CompileFrom(src, i + 1)
  ELSE <<[t |-> "lit", c |-> src[i]]>> \o CompileFrom(src, i + 1)

\* new RegExp(source, 'g')
CompileRegExp(src) == CompileFrom(src, 1)

IsWordAt(text, k) == k >= 0 /\ k < Len(text) /\ text[k + 1] \in WordChars

\* an assertion that holds everywhere
IsWordBoundary_Anywhere(text, k) == TRUE

\* \b at offset k: a word character on exactly one side
IsWordBoundary(text, k) == IsWordAt(text, k - 1) # IsWordAt(text, k)

RECURSIVE MatchFrom(_, _, _, _)
\* the offset where atoms k.. end when matched at offset p, -1 if they do not
MatchFrom(atoms, k, text, p) ==
  IF k > Len(atoms) THEN p
  ELSE IF atoms[k].t = "wb"
    THEN IF IsWordBoundary(text, p) THEN MatchFrom(atoms, k + 1, text, p) ELSE -1
  ELSE IF atoms[k].t = "any"
    THEN IF p < Len(text) /\ text[p + 1] # "\n"
           THEN MatchFrom(atoms, k + 1, text, p + 1) ELSE -1
  ELSE IF p < Len(text) /\ text[p + 1] = atoms[k].c
    THEN MatchFrom(atoms, k + 1, text, p + 1) ELSE -1

\* an exec that resumes one character after the start of the match
RegexExec_ResumesAfterStart(atoms, text, lastIndex) ==
  LET hits == {i \in lastIndex..Len(text) : MatchFrom(atoms, 1, text, i) # -1}
  IN  IF hits = {} THEN [found |-> FALSE, index |-> 0, lastIndex |-> 0]
      ELSE LET i == CHOOSE a \in hits : \A b \in hits : a <= b
           IN  [found |-> TRUE, index |-> i, lastIndex |-> i + 1]

\* regex.exec(text) of a global regex whose lastIndex is given: the leftmost
\* match at or after lastIndex; lastIndex becomes the end of the match, and 0
\* when there is none
RegexExec(atoms, text, lastIndex) ==
  LET hits == {i \in lastIndex..Len(text) : MatchFrom(atoms, 1, text, i) # -1}
  IN  IF hits = {} THEN [found |-> FALSE, index |-> 0, lastIndex |-> 0]
      ELSE LET i == CHOOSE a \in hits : \A b \in hits : a <= b
           IN  [found |-> TRUE, index |-> i, lastIndex |-> MatchFrom(atoms, 1, text, i)]

RECURSIVE ExecLoop(_, _, _)
\* while ((match = regex.exec(text)) !== null): the match indices in order.
\* exec depends on lastIndex only, so a match that leaves lastIndex where it
\* was is found again by every later iteration: the loop never ends
ExecLoop(atoms, text, lastIndex) ==
  LET m == RegexExec(atoms, text, lastIndex)
  IN  IF ~m.found THEN [hangs |-> FALSE, starts |-> <<>>]
      ELSE IF m.lastIndex = lastIndex THEN [hangs |-> TRUE, starts |-> <<>>]
      ELSE LET r == ExecLoop(atoms, text, m.lastIndex)
           IN  [hangs |-> r.hangs, starts |-> <<m.index>> \o r.starts]

\* an end taken from the length of the pattern
EndIndex_OfPattern(startIndex, name) == startIndex + Len(EscapeRegExp(name))

\* endIndex = startIndex + dep.apiName.length
EndIndex(startIndex, name) == startIndex + Len(name)

\* the offset brought into the text
Clamp(text, offset) ==
  IF offset < 0 THEN 0 ELSE IF offset > Len(text) THEN Len(text) ELSE offset

\* doc.positionAt(offset): the line is the number of line breaks before the
\* offset, the character the distance from the last of them
PositionAt(text, offset) ==
  LET o == Clamp(text, offset)
      breaks == {k \in 1..o : text[k] = "\n"}
      lineStart == IF breaks = {} THEN 0
                   ELSE CHOOSE a \in breaks : \A b \in breaks : a >= b
  IN  [line |-> Cardinality(breaks), character |-> o - lineStart]

\* new vscode.Range(doc.positionAt(startIndex), doc.positionAt(endIndex))
RangeOf(text, dep, startIndex) ==
  [start |-> PositionAt(text, startIndex),
   end |-> PositionAt(text, EndIndex(startIndex, dep.apiName))]

\* The API "${dep.apiName}" is marked as ${dep.changeType}. ${dep.description}
DiagnosticOf(text, dep, startIndex) ==
  [severity |-> "Warning",
   range |-> RangeOf(text, dep, startIndex),
   message |-> [apiName |-> dep.apiName, changeType |-> dep.changeType,
                description |-> dep.description],
   source |-> "Chrome Deprecation Watcher"]

\* contentText: [${dep.changeType}] ${dep.apiName}
DecorationOf(text, dep, startIndex) ==
  [range |-> RangeOf(text, dep, startIndex),
   contentText |-> [changeType |-> dep.changeType, apiName |-> dep.apiName]]

\* diagnostics.push(...) and decorationOptions.push(...) of one record, one
\* per match, in the order of the matches
DiagnosticsOf(text, dep, starts) ==
  IF starts = <<>> THEN <<>>
  ELSE [k \in 1..Len(starts) |-> DiagnosticOf(text, dep, starts[k])]

DecorationsOf(text, dep, starts) ==
  IF starts = <<>> THEN <<>>
  ELSE [k \in 1..Len(starts) |-> DecorationOf(text, dep, starts[k])]

ScanResult(outcome, diags, decos) ==
  [outcome |-> outcome, diagnostics |-> diags, decorationOptions |-> decos]

RECURSIVE ScanCatalog(_, _, _)
\* for (const dep of deprecations) { ... }: dep.apiName.replace raises a
\* TypeError when apiName is undefined, and nothing is published then
ScanCatalog(text, items, i) ==
  IF i > Len(items) THEN ScanResult("ok", <<>>, <<>>)
  ELSE IF items[i].apiName = NoName THEN ScanResult("throws", <<>>, <<>>)
  ELSE LET dep == items[i]
           loop == ExecLoop(CompileRegExp(PatternSource(dep.apiName)), text, 0)
       IN  IF loop.hangs THEN ScanResult("hangs", <<>>, <<>>)
           ELSE LET rest == ScanCatalog(text, items, i + 1)
                IN  IF rest.outcome # "ok" THEN rest
                    ELSE ScanResult("ok",
                           DiagnosticsOf(text, dep, loop.starts)
                             \o rest.diagnostics,
                           DecorationsOf(text, dep, loop.starts)
                             \o rest.decorationOptions)

\* the body of checkForDeprecations up to collection.set.  A catalog that is
\* an object or a number cannot be iterated, and the characters of a string
\* have no apiName: a TypeError either way
CheckForDeprecations(text, deps) ==
  IF deps.kind = "array"
    THEN ScanCatalog(text, deps.items, 1)
    ELSE ScanResult("throws", <<>>, <<>>)

(***************************************************************************)
(* Inputs                                                                  *)
(***************************************************************************)
\* number of documents the editor may have open
MaxDocs == 1
DocIds == 1..MaxDocs

\* what chromeReleaseNotes_132.json may hold when the extension starts
PersistedFiles ==
  { JSONStringify(JArr(<<ObjOfTok("{Foo}"), ObjOfTok("{Bar}")>>)),
    JSONStringify(EmptyCatalog),
    <<"[", "{Foo}", "]">>,
    <<"[", "{Bad}", "]">>,
    <<"[", "{Empty}", "]">>,
    <<"[", "5", "]">>,
    <<"[", "[", "]", "]">>,
    <<"{Foo}">>,
    <<"5">>,
    <<"str">>,
    <<"null">>,
    <<"[", "{Foo}", ",">>,
    <<"txt">>,
    <<>> }

\* what a document may hold: "Foo Foo" and "Bar"
DocTexts == { <<"F", "o", "o", " ", "F", "o", "o">>, <<"B", "a", "r">> }

\* what axios.get(url) may deliver
HtmlPages == { <<>>, <<"p">>, <<"h3", "p", "p", "h3">> }

\* what the model may answer
CopilotResponses ==
  { <<"txt", Open, "ws", "[", "ws", "{Foo}", ",", "ws", "{Bar}", "ws", "]", "ws", Fence, "txt">>,
    <<Open, "[", "{Foo}", "]", Fence>>,
    <<Open, "[", "{Bad}", "]", Fence>>,
    <<Open, "[", "]", Fence>>,
    <<Open, "{Foo}", Fence>>,
    <<Open, "null", Fence>>,
    <<Open, "txt", Fence, Open, "[", "{Foo}", "]", Fence>>,
    <<Open, Fence>>,
    <<Open, "[", "{Foo}", "]">>,
    <<"txt">>,
    <<>> }

(***************************************************************************)
(* State                                                                   *)
(***************************************************************************)
VARIABLES
  pc,                \* where activate() stands
  run,               \* the activation (process lifetime) now running
  dirExists,         \* context.globalStoragePath exists
  fileExists,        \* chromeReleaseNotes_132.json exists
  fileData,          \* its content
  foundFile,         \* fs.existsSync(filePath) as getOrCreateReleaseNotes saw it
  existingData,      \* the content it read
  cacheHit,          \* it returned the parsed file
  rawHTML,           \* the fetched page
  extractedSections, \* its sections
  responseText,      \* the model's whole answer
  deprecations,      \* the catalog activate() holds
  error,             \* what activate()'s promise was rejected with
  fetchCalls,        \* calls of fetchReleaseNotesHTML in this run
  inferCalls,        \* calls of parseReleaseNotesWithCopilot in this run
  writeCalls,        \* calls of fs.writeFileSync in this run
  lastSaved,         \* the newData last written in full
  savedRun,          \* the run that wrote it, 0 if none
  handlers,          \* onDidOpenTextDocument and onDidChangeTextDocument registered
  docs,              \* vscode.workspace.textDocuments
  scanned,           \* documents with a diagnostic set in the collection
  acquireCalls,      \* calls of getOrCreateReleaseNotes in this run
  text,              \* doc.getText() of every open document
  visible,           \* documents shown in vscode.window.visibleTextEditors
  diagnostics,       \* the diagnostic set of every document in the collection
  decorations,       \* what setDecorations last gave the editor of a document
  hung,              \* a check is in a loop that never ends
  lastEvent          \* the last document event and what the extension did

vars == <<pc, run, dirExists, fileExists, fileData, foundFile, existingData,
          cacheHit, rawHTML, extractedSections, responseText, deprecations,
          error, fetchCalls, inferCalls, writeCalls, lastSaved, savedRun,
          handlers, docs, scanned, acquireCalls, text, visible, diagnostics,
          decorations, hung, lastEvent>>

fsVars == <<dirExists, fileExists, fileData>>
loadVars == <<foundFile, existingData, cacheHit>>
pipeVars == <<rawHTML, extractedSections, responseText>>
callVars == <<fetchCalls, inferCalls, writeCalls, acquireCalls>>
saveVars == <<lastSaved, savedRun>>
docVars == <<handlers, docs, scanned, text, visible, diagnostics, decorations,
            hung, lastEvent>>

NoText == <<>>
NoEvent == [kind |-> "none", doc |-> 0, handled |-> "none"]
NoResults == [d \in DocIds |-> <<>>]

\* the state of a process that has not called activate() yet
Fresh ==
  /\ pc = "idle"
  /\ foundFile = FALSE /\ existingData = <<>> /\ cacheHit = FALSE
  /\ rawHTML = <<>> /\ extractedSections = <<>> /\ responseText = <<>>
  /\ deprecations = EmptyCatalog
  /\ error = "none"
  /\ fetchCalls = 0 /\ inferCalls = 0 /\ writeCalls = 0 /\ acquireCalls = 0
  /\ handlers = FALSE
  /\ scanned = {}
  /\ diagnostics = NoResults /\ decorations = NoResults
  /\ hung = FALSE
  /\ lastEvent = NoEvent

\* the documents and editors a starting extension may find
Workspace(ds, tx, vis) ==
  /\ ds \in SUBSET DocIds
  /\ tx \in [DocIds -> DocTexts \cup {NoText}]
  /\ \A d \in DocIds : tx[d] = NoText <=> d \notin ds
  /\ vis \in SUBSET ds

Init ==
  /\ Fresh
  /\ run = 1
  /\ dirExists \in BOOLEAN
  /\ fileExists \in BOOLEAN
  /\ fileExists => dirExists
  /\ fileData \in PersistedFiles
  /\ ~fileExists => fileData = <<>>
  /\ lastSaved = EmptyCatalog /\ savedRun = 0
  /\ Workspace(docs, text, visible)

(***************************************************************************)
(* getOrCreateReleaseNotes                                                 *)
(***************************************************************************)
\* a loader that never uses the file
LoadHit_NoCache(exists, data) == FALSE

\* a loader that takes any file that is there
LoadHit_AnyFile(exists, data) == exists

\* if (fs.existsSync(filePath)) { try { return JSON.parse(...) } catch {} }
LoadHit(exists, data) == exists /\ TryParse(data).returned

\* activate() up to its first suspension: the storage folder is created, the
\* file is read if it is there; a usable file ends getOrCreateReleaseNotes,
\* anything else starts the fetch
Activate ==
  /\ pc = "idle"
  /\ acquireCalls' = acquireCalls + 1
  /\ dirExists' = TRUE
  /\ UNCHANGED <<fileExists, fileData>>
  /\ foundFile' = fileExists
  /\ existingData' = (IF fileExists THEN fileData ELSE <<>>)
  /\ IF LoadHit(fileExists, fileData)
       THEN /\ cacheHit' = TRUE
            /\ deprecations' = TryParse(fileData).val
            /\ pc' = "resolved"
            /\ UNCHANGED fetchCalls
       ELSE /\ cacheHit' = FALSE
            /\ fetchCalls' = fetchCalls + 1
            /\ pc' = "fetching"
            /\ UNCHANGED deprecations
  /\ UNCHANGED <<run, pipeVars, error, inferCalls, writeCalls, saveVars, docVars>>

\* axios.get resolves: the page is cut into sections and
\* parseReleaseNotesWithCopilot runs up to selectChatModels
FetchResolves ==
  /\ pc = "fetching"
  /\ \E html \in HtmlPages :
       /\ rawHTML' = html
       /\ extractedSections' = ParseHTMLwithCheerio(html)
  /\ inferCalls' = inferCalls + 1
  /\ pc' = "selecting"
  /\ UNCHANGED <<run, fsVars, loadVars, responseText, deprecations, error,
                 fetchCalls, writeCalls, acquireCalls, saveVars, docVars>>

\* axios.get rejects: nothing catches it up to activate()'s caller
FetchRejects ==
  /\ pc = "fetching"
  /\ error' = "FetchError"
  /\ pc' = "rejected"
  /\ UNCHANGED <<run, fsVars, loadVars, pipeVars, deprecations, callVars,
                 saveVars, docVars>>

\* fs.writeFileSync(filePath, JSON.stringify(newData, null, 2)); return newData
\* outcome "ok", "denied" (the file is left as it was) or "cut" (the file was
\* opened and truncated, and the write then failed)
SaveAndReturn(newData, outcome) ==
  /\ writeCalls' = writeCalls + 1
  /\ UNCHANGED dirExists
  /\ CASE outcome = "ok" ->
            /\ fileExists' = TRUE
            /\ fileData' = JSONStringify(newData)
            /\ lastSaved' = newData
            /\ savedRun' = run
            /\ deprecations' = newData
            /\ pc' = "resolved"
            /\ UNCHANGED error
       [] outcome = "denied" ->
            /\ UNCHANGED <<fileExists, fileData, saveVars, deprecations>>
            /\ error' = "WriteError"
            /\ pc' = "rejected"
       [] outcome = "cut" ->
            /\ fileExists' = TRUE
            /\ fileData' = <<>>
            /\ UNCHANGED <<saveVars, deprecations>>
            /\ error' = "WriteError"
            /\ pc' = "rejected"

WriteOutcomes == {"ok", "denied", "cut"}

(***************************************************************************)
(* parseReleaseNotesWithCopilot                                            *)
(***************************************************************************)
\* selectChatModels resolves with no model: return [] to getOrCreateReleaseNotes
NoModelFound ==
  /\ pc = "selecting"
  /\ \E w \in WriteOutcomes : SaveAndReturn(EmptyCatalog, w)
  /\ UNCHANGED <<run, loadVars, pipeVars, fetchCalls, inferCalls, acquireCalls,
                 docVars>>

\* selectChatModels resolves with a model: the request is sent
ModelSelected ==
  /\ pc = "selecting"
  /\ pc' = "sending"
  /\ UNCHANGED <<run, fsVars, loadVars, pipeVars, deprecations, error,
                 callVars, saveVars, docVars>>

SelectModelsRejects ==
  /\ pc = "selecting"
  /\ error' = "SelectModelsError"
  /\ pc' = "rejected"
  /\ UNCHANGED <<run, fsVars, loadVars, pipeVars, deprecations, callVars,
                 saveVars, docVars>>

\* sendRequest resolves: the answer is streamed
RequestAccepted ==
  /\ pc = "sending"
  /\ pc' = "streaming"
  /\ UNCHANGED <<run, fsVars, loadVars, pipeVars, deprecations, error,
                 callVars, saveVars, docVars>>

SendRequestRejects ==
  /\ pc = "sending"
  /\ error' = "SendRequestError"
  /\ pc' = "rejected"
  /\ UNCHANGED <<run, fsVars, loadVars, pipeVars, deprecations, callVars,
                 saveVars, docVars>>

\* the stream ends: the block is extracted and parsed, and
\* getOrCreateReleaseNotes writes what came back
StreamEnds ==
  /\ pc = "streaming"
  /\ \E resp \in CopilotResponses, w \in WriteOutcomes :
       /\ responseText' = resp
       /\ SaveAndReturn(ParseCopilotResponse(resp), w)
  /\ UNCHANGED <<run, loadVars, rawHTML, extractedSections, fetchCalls,
                 inferCalls, acquireCalls, docVars>>

\* the stream raises while it is read
StreamRaises ==
  /\ pc = "streaming"
  /\ error' = "StreamError"
  /\ pc' = "rejected"
  /\ UNCHANGED <<run, fsVars, loadVars, pipeVars, deprecations, callVars,
                 saveVars, docVars>>

(***************************************************************************)
(* activate() after the catalog has arrived, and the editor's events       *)
(***************************************************************************)
\* whether a registered listener is called for an event
Listening_BeforeRegistration(registered) == TRUE

\* context.subscriptions holds the two listeners once activate() has
\* registered them
Listening(registered) == registered

\* what one call of checkForDeprecations on document d with text t finds
CheckOf(t) == CheckForDeprecations(t, deprecations)

\* collection.set(doc.uri, diagnostics) for the documents of S, and
\* editor.setDecorations for those of them shown in an editor
Publish(S, tx) ==
  /\ scanned' = scanned \cup S
  /\ diagnostics' = [d \in DocIds |->
                       IF d \in S THEN CheckOf(tx[d]).diagnostics
                                  ELSE diagnostics[d]]
  /\ decorations' = [d \in DocIds |->
                       IF d \in S /\ d \in visible
                         THEN CheckOf(tx[d]).decorationOptions
                         ELSE decorations[d]]

\* the first open document whose check does not return, 0 if all do
FirstFailing ==
  LET bad == {d \in docs : CheckOf(text[d]).outcome # "ok"}
  IN  IF bad = {} THEN 0 ELSE CHOOSE a \in bad : \A b \in bad : a <= b

\* the handlers are registered and every open document is checked in turn;
\* the first check that raises ends forEach and rejects activate(), and a
\* check that never returns holds activate() for ever
FinishActivation ==
  /\ pc = "resolved"
  /\ ~hung
  /\ handlers' = TRUE
  /\ IF FirstFailing = 0
       THEN /\ Publish(docs, text)
            /\ pc' = "active"
            /\ UNCHANGED <<error, hung>>
       ELSE /\ Publish({d \in docs : d < FirstFailing}, text)
            /\ IF CheckOf(text[FirstFailing]).outcome = "throws"
                 THEN error' = "TypeError" /\ pc' = "rejected" /\ UNCHANGED hung
                 ELSE hung' = TRUE /\ UNCHANGED <<pc, error>>
  /\ UNCHANGED <<run, fsVars, loadVars, pipeVars, deprecations, callVars,
                 saveVars, docs, text, visible, lastEvent>>

\* a document event for d, whose text is now tx[d]: a registered listener
\* checks the document, and an exception of the check is lost in the emitter
HandleEvent(kind, d, tx) ==
  IF ~Listening(handlers)
    THEN /\ lastEvent' = [kind |-> kind, doc |-> d, handled |-> "ignored"]
         /\ UNCHANGED <<scanned, diagnostics, decorations, hung>>
  ELSE IF CheckOf(tx[d]).outcome = "ok"
    THEN /\ lastEvent' = [kind |-> kind, doc |-> d, handled |-> "ok"]
         /\ Publish({d}, tx)
         /\ UNCHANGED hung
  ELSE IF CheckOf(tx[d]).outcome = "throws"
    THEN /\ lastEvent' = [kind |-> kind, doc |-> d, handled |-> "threw"]
         /\ UNCHANGED <<scanned, diagnostics, decorations, hung>>
  ELSE /\ lastEvent' = [kind |-> kind, doc |-> d, handled |-> "hung"]
       /\ hung' = TRUE
       /\ UNCHANGED <<scanned, diagnostics, decorations>>

\* the editor opens a document: onDidOpenTextDocument
OpenDocument(d) ==
  /\ ~hung
  /\ d \notin docs
  /\ docs' = docs \cup {d}
  /\ \E t \in DocTexts :
       /\ text' = [text EXCEPT ![d] = t]
       /\ HandleEvent("open", d, text')
  /\ UNCHANGED <<pc, run, fsVars, loadVars, pipeVars, deprecations, error,
                 callVars, saveVars, handlers, visible>>

\* the text of an open document changes: onDidChangeTextDocument
ChangeDocument(d) ==
  /\ ~hung
  /\ d \in docs
  /\ \E t \in DocTexts \ {text[d]} :
       /\ text' = [text EXCEPT ![d] = t]
       /\ HandleEvent("change", d, text')
  /\ UNCHANGED <<pc, run, fsVars, loadVars, pipeVars, deprecations, error,
                 callVars, saveVars, handlers, docs, visible>>

\* an editor is opened on a document; the extension does not listen to that
ShowEditor(d) ==
  /\ d \in docs \ visible
  /\ visible' = visible \cup {d}
  /\ UNCHANGED <<pc, run, fsVars, loadVars, pipeVars, deprecations, error,
                 callVars, saveVars, handlers, docs, scanned, text,
                 diagnostics, decorations, hung, lastEvent>>

\* the editor of a document is closed, and its decorations go with it
HideEditor(d) ==
  /\ d \in visible
  /\ visible' = visible \ {d}
  /\ decorations' = [decorations EXCEPT ![d] = <<>>]
  /\ UNCHANGED <<pc, run, fsVars, loadVars, pipeVars, deprecations, error,
                 callVars, saveVars, handlers, docs, scanned, text,
                 diagnostics, hung, lastEvent>>

\* the extension host ends and a new one starts: the files remain, and the
\* editor keeps its documents and editors, without their decorations
Restart ==
  /\ pc \in {"active", "rejected"} \/ hung
  /\ run < MaxRuns
  /\ run' = run + 1
  /\ pc' = "idle"
  /\ foundFile' = FALSE /\ existingData' = <<>> /\ cacheHit' = FALSE
  /\ rawHTML' = <<>> /\ extractedSections' = <<>> /\ responseText' = <<>>
  /\ deprecations' = EmptyCatalog
  /\ error' = "none"
  /\ fetchCalls' = 0 /\ inferCalls' = 0 /\ writeCalls' = 0 /\ acquireCalls' = 0
  /\ handlers' = FALSE
  /\ scanned' = {}
  /\ diagnostics' = NoResults /\ decorations' = NoResults
  /\ hung' = FALSE
  /\ lastEvent' = NoEvent
  /\ UNCHANGED <<fsVars, saveVars, docs, text, visible>>

Next ==
  \/ Activate
  \/ FetchResolves
  \/ FetchRejects
  \/ NoModelFound
  \/ ModelSelected
  \/ SelectModelsRejects
  \/ RequestAccepted
  \/ SendRequestRejects
  \/ StreamEnds
  \/ StreamRaises
  \/ FinishActivation
  \/ \E d \in DocIds : OpenDocument(d)
  \/ \E d \in DocIds : ChangeDocument(d)
  \/ \E d \in DocIds : ShowEditor(d)
  \/ \E d \in DocIds : HideEditor(d)
  \/ Restart

Spec == Init /\ [][Next]_vars

(***************************************************************************)
(* The structured-record parser on its own: every response up to the       *)
(* bound is given to step 6 of parseReleaseNotesWithCopilot.               *)
(***************************************************************************)
BlockAlphabet == {"[", "]", ",", "{Foo}", "{Bad}", "null", "5", "txt", "ws"}

BlockTexts == UNION {[1..n -> BlockAlphabet] : n \in 0..MaxBlockLen}

Responses ==
  { pre \o op \o body \o cl \o suf :
      pre \in {<<>>, <<"txt">>},
      op \in {<<Open>>, <<Fence>>, <<>>},
      body \in BlockTexts,
      cl \in {<<Fence>>, <<>>},
      suf \in {<<>>, <<Open, "[", "{Foo}", "]", Fence>>} }

ParserInit ==
  /\ pc = "streaming"
  /\ run = 1
  /\ dirExists = TRUE /\ fileExists = FALSE /\ fileData = <<>>
  /\ foundFile = FALSE /\ existingData = <<>> /\ cacheHit = FALSE
  /\ rawHTML = <<>> /\ extractedSections = <<>>
  /\ responseText \in Responses
  /\ deprecations = EmptyCatalog
  /\ error = "none"
  /\ fetchCalls = 1 /\ inferCalls = 1 /\ writeCalls = 0 /\ acquireCalls = 1
  /\ lastSaved = EmptyCatalog /\ savedRun = 0
  /\ handlers = FALSE /\ docs = {} /\ scanned = {}
  /\ text = [d \in DocIds |-> NoText] /\ visible = {}
  /\ diagnostics = NoResults /\ decorations = NoResults
  /\ hung = FALSE
  /\ lastEvent = NoEvent

\* the stream has ended with responseText: the parser returns
ParserReturns ==
  /\ pc = "streaming"
  /\ deprecations' = ParseCopilotResponse(responseText)
  /\ pc' = "parsed"
  /\ UNCHANGED <<run, fsVars, loadVars, pipeVars, error, callVars, saveVars,
                 docVars>>

ParserNext == ParserReturns

ParserSpec == ParserInit /\ [][ParserNext]_vars

(***************************************************************************)
(* The Match Engine on its own: activate() holds a catalog, one document   *)
(* is open, and the startup enumeration checks it.                         *)
(***************************************************************************)
\* longest generated apiName and longest generated document text
MaxNameLen == 2
MaxTextLen == 4

\* a lower-case letter, an upper-case letter and a metacharacter that is not
\* a word character
MatchAlphabet == {"a", "A", "."}

Strings(n) == UNION {[1..k -> MatchAlphabet] : k \in 0..n}

\* the names and texts of the examples
Foo ==
  <<"F", "o", "o">>
ABParens ==
  <<"a", ".", "b", "(", ")">>
DotFoo ==
  <<".", "f", "o", "o">>
AdotA ==
  <<"a", ".", "a">>
WatchPosition ==
  <<"w", "a", "t", "c", "h", "P", "o", "s", "i", "t", "i", "o", "n">>
GeoWatchPosition ==
  <<"g", "e", "o", "l", "o", "c", "a", "t", "i", "o", "n", ".", "w", "a",
    "t", "c", "h", "P", "o", "s", "i", "t", "i", "o", "n">>
NavigatorCall ==
  <<"n", "a", "v", "i", "g", "a", "t", "o", "r", ".", "g", "e", "o", "l",
    "o", "c", "a", "t", "i", "o", "n", ".", "w", "a", "t", "c", "h", "P",
    "o", "s", "i", "t", "i", "o", "n", "(", "c", "b", ")", ";">>

ExampleNames == {Foo, ABParens, DotFoo, AdotA}

ExampleTexts ==
  { NavigatorCall,
    <<"x", " ", "F", "o", "o", " ", "y">>,
    <<"F", "o", "o", "B", "a", "r">>,
    <<"x", "F", "o", "o">>,
    <<"F", "o", "o", "F", "o", "o">>,
    <<"F", "o", "o", " ", "F", "o", "o">>,
    <<"F", "o", "o", "\n", "F", "o", "o">>,
    <<"a", ".", "b", "(", ")">>,
    <<"a", "X", "b", "(", ")">>,
    <<"a", ".", "b", "(", ")", "x">>,
    <<"x", ".", "f", "o", "o">>,
    <<"a", ".", "a", ".", "a">> }

MatchNames == Strings(MaxNameLen) \cup ExampleNames
MatchTexts == Strings(MaxTextLen) \cup ExampleTexts

\* the names of the catalogs of two records
PairNames == (Strings(1) \ {<<>>}) \cup {AdotA}

RecordOf(name) == JObj(name, "Deprecated", "d1")
SecondOf(name) == JObj(name, "Removed", "d2")

GeoCatalog ==
  JArr(<<JObj(GeoWatchPosition, "Deprecated", "Use permissions API instead.")>>)

MatchCatalogs ==
  {JArr(<<RecordOf(n)>>) : n \in MatchNames}
    \cup {JArr(<<RecordOf(n), SecondOf(m)>>) : n \in PairNames, m \in PairNames}
    \cup {GeoCatalog}

\* getOrCreateReleaseNotes has just written the catalog and returned it to
\* activate(), and document 1 is open; the scan reads the catalog and the
\* text only, and the text of the file is left out
MatchInit ==
  /\ pc = "resolved"
  /\ run = 1
  /\ dirExists = TRUE /\ fileExists = TRUE /\ fileData = <<>>
  /\ foundFile = FALSE /\ existingData = <<>> /\ cacheHit = FALSE
  /\ rawHTML = <<>> /\ extractedSections = <<>> /\ responseText = <<>>
  /\ deprecations \in MatchCatalogs
  /\ error = "none"
  /\ fetchCalls = 1 /\ inferCalls = 1 /\ writeCalls = 1 /\ acquireCalls = 1
  /\ lastSaved = deprecations /\ savedRun = 1
  /\ handlers = FALSE /\ docs = {1} /\ scanned = {}
  /\ \E t \in MatchTexts : text = [d \in DocIds |-> IF d = 1 THEN t ELSE NoText]
  /\ visible \in SUBSET {1}
  /\ diagnostics = NoResults /\ decorations = NoResults
  /\ hung = FALSE
  /\ lastEvent = NoEvent

MatchNext == FinishActivation

MatchSpec == MatchInit /\ [][MatchNext]_vars

(***************************************************************************)
(* Properties                                                              *)
(***************************************************************************)
TypeOK ==
  /\ pc \in {"idle", "fetching", "selecting", "sending", "streaming",
             "resolved", "active", "rejected", "parsed"}
  /\ run \in 1..MaxRuns
  /\ fetchCalls \in 0..1 /\ inferCalls \in 0..1 /\ writeCalls \in 0..1

\* getOrCreateReleaseNotes has returned a catalog to activate()
Acquired ==
  \/ pc \in {"resolved", "active"}
  \/ pc = "rejected" /\ error = "TypeError"

\* the file getOrCreateReleaseNotes found held a sequence of DeprecationRecords
FoundValidEntry ==
  /\ foundFile
  /\ JSONParse(existingData).ok
  /\ IsDeprecatedAPIArray(JSONParse(existingData).val)

\* C1: cache-first.  Whenever the file found for the version holds a valid
\* catalog, getOrCreateReleaseNotes returns exactly the records of the file,
\* calls neither the fetch nor the inference step, and leaves the file as it is.
C1_CacheFirst ==
  (pc # "idle" /\ FoundValidEntry) =>
    /\ Acquired
    /\ cacheHit
    /\ deprecations = JSONParse(existingData).val
    /\ fetchCalls = 0 /\ inferCalls = 0 /\ writeCalls = 0
    /\ fileExists /\ fileData = existingData

C1_Witness ==
  /\ pc = "active"
  /\ FoundValidEntry
  /\ Len(deprecations.items) = 2
  /\ scanned # {}

\* C2: an acquisition that yields zero records leaves no entry in the store,
\* so that the next activation fetches and infers again.
C2_EmptyCatalogNotPersisted ==
  (pc = "resolved" /\ ~cacheHit /\ deprecations = EmptyCatalog) =>
    ~(fileExists /\ JSONParse(fileData).ok)

\* C3: a failed fetch yields an empty catalog, not an error, and activation
\* goes on to register the handlers.
C3_FetchFailureFailsOpen ==
  (error = "FetchError") => (pc # "rejected" /\ deprecations = EmptyCatalog)

\* C4: whichever way the text-generation step fails, the Acquirer returns an
\* empty catalog and no error leaves it.
C4_InferenceFailureYieldsEmpty ==
  (error \in {"SelectModelsError", "SendRequestError", "StreamError"}) =>
    (pc # "rejected" /\ deprecations = EmptyCatalog)

\* C5: a failed write of the catalog file does not fail
\* getOrCreateReleaseNotes: the caller still gets the acquired records.
C5_WriteFailureNonFatal ==
  (error = "WriteError") =>
    (pc # "rejected" /\ deprecations = ParseCopilotResponse(responseText))

\* C6: a file whose bytes do not parse is a cache miss.  The parse error is
\* not propagated and the fetch is started; once the page has arrived it has
\* been cut into sections and given to the inference step; once that has
\* returned the write has been attempted; and once getOrCreateReleaseNotes
\* has returned the file holds the acquired catalog in place of the old bytes.
C6_CorruptIsCacheMiss ==
  (pc # "idle" /\ foundFile /\ ~JSONParse(existingData).ok) =>
    /\ ~cacheHit
    /\ fetchCalls = 1
    /\ error \in {"none", "FetchError", "SelectModelsError", "SendRequestError",
                  "StreamError", "WriteError", "TypeError"}
    /\ (pc # "fetching" /\ error # "FetchError") =>
         /\ extractedSections = ParseHTMLwithCheerio(rawHTML)
         /\ inferCalls = 1
    /\ (Acquired \/ error = "WriteError") => writeCalls = 1
    /\ Acquired =>
         /\ fileExists /\ fileData = JSONStringify(deprecations)
         /\ fileData # existingData

C6_Witness ==
  /\ pc = "active"
  /\ foundFile /\ ~JSONParse(existingData).ok /\ existingData # <<>>
  /\ deprecations.items # <<>>
  /\ fileData = JSONStringify(deprecations)

\* C7: every catalog returned from the cache path is a sequence of
\* well-formed DeprecationRecords (a file of any other shape is rejected).
C7_CachePathWellFormed ==
  cacheHit => IsDeprecatedAPIArray(deprecations)

\* C8: round trip.  A non-empty sequence of valid records written at the end
\* of an acquisition is what a later run loads: same records, same order.
C8_RoundTrip ==
  (/\ savedRun > 0 /\ savedRun < run /\ pc # "idle"
   /\ IsDeprecatedAPIArray(lastSaved) /\ lastSaved.items # <<>>) =>
    (cacheHit /\ deprecations = lastSaved)

C8_Witness ==
  /\ savedRun = 1 /\ run = 2 /\ pc = "active"
  /\ IsDeprecatedAPIArray(lastSaved) /\ Len(lastSaved.items) = 2
  /\ deprecations = lastSaved

\* the response has an opening fence and, after it, three backquotes
HasFencedBlock(r) ==
  \E i \in 1..Len(r) : r[i] = Open /\ \E j \in (i + 1)..Len(r) : ClosesBlock(r[j])

\* the text between the first opening fence and the next three backquotes
FirstFencedBlock(r) ==
  LET i == CHOOSE a \in 1..Len(r) :
             r[a] = Open /\ \A b \in 1..(a - 1) : r[b] # Open
      j == CHOOSE a \in (i + 1)..Len(r) :
             ClosesBlock(r[a]) /\ \A b \in (i + 1)..(a - 1) : ~ClosesBlock(r[b])
  IN  SubSeq(r, i + 1, j - 1)

\* C9: parser robustness.  A response without a fenced json block, and a
\* response whose first fenced json block is not valid JSON, make the parser
\* return the empty sequence, and nothing is raised.
C9_ParserRobust ==
  (/\ pc = "parsed"
   /\ \/ ~HasFencedBlock(responseText)
      \/ ~JSONParse(FirstFencedBlock(responseText)).ok) =>
    (deprecations = EmptyCatalog /\ error = "none")

C9_Witness ==
  /\ pc = "parsed"
  /\ HasFencedBlock(responseText)
  /\ ~JSONParse(FirstFencedBlock(responseText)).ok
  /\ \E k \in 1..(Len(responseText) - 2) :
       JSONParse(SubSeq(responseText, k, k + 2)).ok
  /\ deprecations = EmptyCatalog

\* C10: a block that parses to something other than a sequence is rejected:
\* what the parser returns is always a sequence.
C10_ParserReturnsSequence ==
  (pc = "parsed") => (deprecations.kind = "array")


(***************************************************************************)
(* Properties of the Match Engine                                          *)
(***************************************************************************)
\* doc.offsetAt(pos): the offset that positionAt turns into pos
OffsetAt(t, pos) == CHOOSE o \in 0..Len(t) : PositionAt(t, o) = pos

StartOffset(t, diag) == OffsetAt(t, diag.range.start)
EndOffset(t, diag) == OffsetAt(t, diag.range.end)

\* the characters of t from offset i are those of name
OccursAt(name, t, i) ==
  /\ i >= 0
  /\ i + Len(name) <= Len(t)
  /\ SubSeq(t, i + 1, i + Len(name)) = name

\* activate() has checked document d and its diagnostic set is that of its
\* text
Checked(d) == pc = "active" /\ d \in scanned

\* the catalog is one record with the given name
OneRecord(name) ==
  /\ deprecations.kind = "array"
  /\ Len(deprecations.items) = 1
  /\ deprecations.items[1].apiName = name

\* the start offsets of the diagnostics of document d
StartsOf(d) == {StartOffset(text[d], diagnostics[d][k]) : k \in 1..Len(diagnostics[d])}

\* what the message and the label of a record's results carry
MessageOf(dep) ==
  [apiName |-> dep.apiName, changeType |-> dep.changeType,
   description |-> dep.description]

HasMeta(name) == \E k \in 1..Len(name) : name[k] \in MetaChars

\* t is name with the metacharacter at one position replaced by another
\* character
SubstitutedAtMeta(name, t) ==
  /\ Len(t) = Len(name)
  /\ \E k \in 1..Len(name) :
       /\ name[k] \in MetaChars
       /\ t[k] # name[k]
       /\ \A j \in 1..Len(name) : j # k => t[j] = name[j]

\* C11: for a record whose apiName A holds regex metacharacters, a document
\* whose text is exactly A gives a match, and a document that is A with the
\* character at one metacharacter position replaced gives none.
C11_LiteralMetacharacters ==
  \A d \in DocIds :
    (/\ Checked(d)
     /\ deprecations.kind = "array"
     /\ Len(deprecations.items) = 1
     /\ deprecations.items[1].apiName # NoName
     /\ HasMeta(deprecations.items[1].apiName))
    => LET name == deprecations.items[1].apiName
       IN  /\ text[d] = name => diagnostics[d] # <<>>
           /\ SubstitutedAtMeta(name, text[d]) => diagnostics[d] = <<>>

IsWordName(name) ==
  /\ name # NoName
  /\ name # <<>>
  /\ \A k \in 1..Len(name) : name[k] \in WordChars

\* C12: for an apiName of word characters only, the scan reports a match at
\* offset i exactly when the text has the name at i with a non-word character
\* or a string edge just before and just after it, once per such offset:
\* "x Foo y" gives one match, "FooBar", "xFoo" and "FooFoo" none, and
\* "Foo Foo" two, at offsets 0 and 4.
C12_WordBoundary ==
  \A d \in DocIds :
    (/\ Checked(d)
     /\ deprecations.kind = "array"
     /\ Len(deprecations.items) = 1
     /\ IsWordName(deprecations.items[1].apiName))
    => LET name == deprecations.items[1].apiName
           t == text[d]
           expected == {i \in 0..Len(t) :
                          /\ OccursAt(name, t, i)
                          /\ ~IsWordAt(t, i - 1)
                          /\ ~IsWordAt(t, i + Len(name))}
       IN  /\ StartsOf(d) = expected
           /\ Len(diagnostics[d]) = Cardinality(expected)
           /\ (name = Foo /\ t = <<"x", " ", "F", "o", "o", " ", "y">>)
                => StartsOf(d) = {2}
           /\ (name = Foo /\ t \in {<<"F", "o", "o", "B", "a", "r">>,
                                     <<"x", "F", "o", "o">>,
                                     <<"F", "o", "o", "F", "o", "o">>})
                => diagnostics[d] = <<>>
           /\ (name = Foo /\ t = <<"F", "o", "o", " ", "F", "o", "o">>)
                => /\ Len(diagnostics[d]) = 2
                   /\ StartOffset(t, diagnostics[d][1]) = 0
                   /\ StartOffset(t, diagnostics[d][2]) = 4

C12_Witness ==
  /\ Checked(1)
  /\ OneRecord(Foo)
  /\ text[1] = <<"F", "o", "o", " ", "F", "o", "o">>
  /\ Len(diagnostics[1]) = 2

\* the one offset at which part occurs in t
OffsetOf(part, t) == CHOOSE i \in 0..Len(t) : OccursAt(part, t, i)

GeoScanned ==
  /\ Checked(1)
  /\ deprecations = GeoCatalog
  /\ text[1] = NavigatorCall

\* C13, as stated: with the one record "geolocation.watchPosition" and the
\* text "navigator.geolocation.watchPosition(cb);" the scan gives exactly one
\* result, which starts at the offset of "watchPosition" in the text and
\* carries the record's changeType and description.
C13_StartsAtWatchPosition ==
  GeoScanned =>
    /\ Len(diagnostics[1]) = 1
    /\ StartOffset(text[1], diagnostics[1][1]) = OffsetOf(WatchPosition, text[1])
    /\ diagnostics[1][1].message.changeType = "Deprecated"
    /\ diagnostics[1][1].message.description = "Use permissions API instead."

\* C13, amended: the one result starts at the offset of the whole name
\* "geolocation.watchPosition" in the text, offset 10, ends at offset 35, and
\* carries the record's changeType and description.
C13_StartsAtWholeName ==
  GeoScanned =>
    /\ Len(diagnostics[1]) = 1
    /\ StartOffset(text[1], diagnostics[1][1]) = OffsetOf(GeoWatchPosition, text[1])
    /\ StartOffset(text[1], diagnostics[1][1]) = 10
    /\ EndOffset(text[1], diagnostics[1][1]) = 35
    /\ diagnostics[1][1].message.changeType = "Deprecated"
    /\ diagnostics[1][1].message.description = "Use permissions API instead."

C13_Witness == GeoScanned /\ Len(diagnostics[1]) = 1

\* the offsets at which the pattern of name matches in t
MatchIndexes(name, t) ==
  {i \in 0..Len(t) :
     MatchFrom(CompileRegExp(PatternSource(name)), 1, t, i) # -1}

\* C14: every result of a record starts at a match index of the record's
\* pattern and ends Len(apiName) later, the text between the two offsets is
\* the apiName, the range lies in the text, and the diagnostic and the
\* decoration label carry the record's apiName, changeType and description.
C14_RangeIsTheName ==
  \A d \in DocIds :
    (Checked(d) /\ deprecations.kind = "array") =>
      /\ \A k \in 1..Len(diagnostics[d]) :
           \E i \in 1..Len(deprecations.items) :
             LET dep == deprecations.items[i]
                 diag == diagnostics[d][k]
                 s == StartOffset(text[d], diag)
                 e == EndOffset(text[d], diag)
             IN  /\ diag.message = MessageOf(dep)
                 /\ s \in MatchIndexes(dep.apiName, text[d])
                 /\ e = s + Len(dep.apiName)
                 /\ 0 <= s /\ e <= Len(text[d])
                 /\ SubSeq(text[d], s + 1, e) = dep.apiName
      /\ d \in visible =>
           /\ Len(decorations[d]) = Len(diagnostics[d])
           /\ \A k \in 1..Len(decorations[d]) :
                /\ decorations[d][k].range = diagnostics[d][k].range
                /\ decorations[d][k].contentText =
                     [changeType |-> diagnostics[d][k].message.changeType,
                      apiName |-> diagnostics[d][k].message.apiName]

C14_Witness ==
  /\ Checked(1)
  /\ OneRecord(ABParens)
  /\ text[1] = <<"a", ".", "b", "(", ")", "x">>
  /\ 1 \in visible
  /\ Len(diagnostics[1]) = 1
  /\ Len(decorations[1]) = 1

\* C15: the results of one scan are the results of the first record, then
\* those of the second, and so on; the results of one record have increasing
\* start offsets and do not overlap, and every match index of the record is
\* either reported or lies inside a reported match; two records with the same
\* apiName give the same ranges, each its own.
C15_CatalogOrder ==
  \A d \in DocIds :
    (Checked(d) /\ deprecations.kind = "array") =>
      LET items == deprecations.items
          diags == diagnostics[d]
          t == text[d]
      IN  \E f \in [1..Len(diags) -> 1..Len(items)] :
            /\ \A k \in 1..Len(diags) : diags[k].message = MessageOf(items[f[k]])
            /\ \A j, k \in 1..Len(diags) : j < k => f[j] <= f[k]
            /\ \A j, k \in 1..Len(diags) :
                 (j < k /\ f[j] = f[k]) =>
                   /\ StartOffset(t, diags[j]) < StartOffset(t, diags[k])
                   /\ EndOffset(t, diags[j]) <= StartOffset(t, diags[k])
            /\ \A i \in 1..Len(items) :
                 LET own == {StartOffset(t, diags[k]) :
                               k \in {j \in 1..Len(diags) : f[j] = i}}
                 IN  /\ own \subseteq MatchIndexes(items[i].apiName, t)
                     /\ \A m \in MatchIndexes(items[i].apiName, t) :
                          \/ m \in own
                          \/ \E s \in own :
                               s < m /\ m < s + Len(items[i].apiName)
            /\ \A i, j \in 1..Len(items) :
                 items[i].apiName = items[j].apiName =>
                   Cardinality({k \in 1..Len(diags) : f[k] = i})
                     = Cardinality({k \in 1..Len(diags) : f[k] = j})

C15_Witness ==
  /\ Checked(1)
  /\ deprecations = JArr(<<RecordOf(AdotA), SecondOf(AdotA)>>)
  /\ text[1] = <<"a", ".", "a", ".", "a">>
  /\ Len(diagnostics[1]) = 2
  /\ diagnostics[1][1].message.changeType = "Deprecated"
  /\ diagnostics[1][2].message.changeType = "Removed"
  /\ diagnostics[1][1].range = diagnostics[1][2].range

\* C18: for a non-empty apiName, whatever its first and last character, the
\* character just before the start of a reported match and the character at
\* its end are not word characters.
C18_MatchesAreBounded ==
  \A d \in DocIds :
    Checked(d) =>
      \A k \in 1..Len(diagnostics[d]) :
        diagnostics[d][k].message.apiName # <<>> =>
          /\ ~IsWordAt(text[d], StartOffset(text[d], diagnostics[d][k]) - 1)
          /\ ~IsWordAt(text[d], EndOffset(text[d], diagnostics[d][k]))


(***************************************************************************)
(* Properties of the activation sequence and the document events           *)
(***************************************************************************)
\* getOrCreateReleaseNotes has been called and has not returned yet
Pending == pc \in {"fetching", "selecting", "sending", "streaming"}

\* C16: no check of a document happens before getOrCreateReleaseNotes has
\* returned, whether from an open event, a change event or the startup
\* enumeration; an activation calls getOrCreateReleaseNotes once; every
\* diagnostic set comes from the catalog it returned; an event that arrives
\* while the fetch or the inference is pending causes no check.
C16_AcquisitionPrecedesScanning ==
  /\ acquireCalls = (IF pc = "idle" THEN 0 ELSE 1)
  /\ (pc = "idle" \/ Pending) =>
       /\ scanned = {}
       /\ diagnostics = NoResults
       /\ decorations = NoResults
       /\ ~hung
       /\ lastEvent.handled \in {"none", "ignored"}
  /\ lastEvent.handled \in {"ok", "threw", "hung"} => handlers
  /\ (handlers \/ scanned # {} \/ hung) => ~(pc = "idle" \/ Pending)
  /\ \A d \in scanned :
       diagnostics[d] = CheckForDeprecations(text[d], deprecations).diagnostics

C16_Witness ==
  /\ pc = "active"
  /\ lastEvent.handled = "ignored"
  /\ lastEvent.doc \in scanned
  /\ diagnostics[lastEvent.doc] # <<>>

\* C17: once the listeners are registered and the startup enumeration has
\* run, every open document has a diagnostic set, and it is the result of
\* the Match Engine on the document's current text.
C17_DiagnosticsFollowText ==
  handlers =>
    \A d \in docs :
      /\ d \in scanned
      /\ diagnostics[d] = CheckForDeprecations(text[d], deprecations).diagnostics

\* C19: no check of a document runs for ever, whatever catalog the file or
\* the parser handed over.
C19_ChecksTerminate == ~hung

\* C20: no check of a document raises an error, neither in the startup
\* enumeration nor in a listener, whatever JSON value the loader or the
\* parser accepted as the catalog.
C20_ScanNeverFails ==
  /\ ~(pc = "rejected" /\ error = "TypeError")
  /\ lastEvent.handled # "threw"


\* the ranges of a sequence of diagnostics or of decoration options
RangesOf(results) == {results[k].range : k \in 1..Len(results)}

\* C21: after activation, for every document shown in a visible editor, the
\* ranges of the decorations given to the editor are the ranges of the
\* diagnostic set stored for the document, also when the document was
\* checked while it had no editor and was shown afterwards.
C21_DecorationsAgree ==
  pc = "active" =>
    \A d \in visible : RangesOf(decorations[d]) = RangesOf(diagnostics[d])

====
